---- MODULE Spec2Model ----
(***************************************************************************)
(* Wordfeud -> CDF extractor (src/handler.py).                             *)
(*                                                                         *)
(* One synchronization run is handle(): it checks the credentials, logs    *)
(* in, builds the per-metric datapoint batches (get_wordfeud_data), hands  *)
(* them to the time-series store (store_wordfeud_data) and reports the run *)
(* to the extraction pipeline.  The remote game source, the time-series    *)
(* store and the run reporter are the environment: every call to them      *)
(* either returns or raises.                                               *)
(*                                                                         *)
(* Abstractions: the pass-through metadata fields (rating_delta, ruleset,  *)
(* board, move_count, created) carry no control flow and are left out;     *)
(* win_rate is kept as the exact quotient (won/total)*100, the rounding of *)
(* the double arithmetic is not modelled.                                  *)
(*                                                                         *)
(* Specifications: Spec (runs one after another, fixed rated list),        *)
(* SpecPlayers (one record, any players array), SpecConcurrent (handle     *)
(* entered while another invocation is under way), SpecHistory (rated      *)
(* games keep finishing), SpecRepeat (handle invoked for ever, fair).      *)
(***************************************************************************)
EXTENDS Integers, Sequences, FiniteSets, TLC

\* ------------------------------------------------------------------ bounds
MaxRated == 2      \* records returned by get_ratings
MaxTime == 2       \* largest 'updated' value (epoch seconds)
MaxRating == 2     \* largest 'rating' value
MaxGames == 2      \* games returned by get_games
MaxRuns == 2       \* invocations of handle
MaxFaults == 1     \* calls that raise / series that are missing, per behaviour
MaxPlayers == 3    \* entries of one record's players array

\* --------------------------------------------------------------- constants
None == -99                 \* Python None for an integer-valued field
MsPerSecond == 1000         \* int(game_updated) * 1000
Percent == 100              \* won_games / total_games * 100

Runs == 1..MaxRuns

\* datapoints = {'rating': [], 'games_played': [], ...}: dict insertion order
MetricOrder ==
    <<"rating", "games_played", "games_won", "win_rate", "current_streak", "best_rating">>

Metrics == {MetricOrder[i] : i \in 1..Len(MetricOrder)}

EmptyData == [m \in Metrics |-> <<>>]

\* ------------------------------------------------------------ remote data
\* An entry of game['players']: a dict with is_local/score/username, or a
\* value that is no dict (player.get raises AttributeError).
Player(local, score, name) ==
    [dict |-> TRUE, is_local |-> local, score |-> score, username |-> name]

NotADict == [dict |-> FALSE, is_local |-> FALSE, score |-> 0, username |-> "?"]

PlayersChoices ==
    { <<Player(TRUE, 2, "me"), Player(FALSE, 1, "opp")>>,
      <<NotADict>> }

WellFormedPlayers == <<Player(TRUE, 2, "me"), Player(FALSE, 1, "opp")>>

\* The rated records the remote source may hold: well-formed or malformed
\* records with a rating and a positive 'updated', and records that lack a
\* rating or a usable 'updated' (absent, zero, negative).
GameBodies ==
    { [updated |-> u, rating |-> v, players |-> p] :
        u \in 1..MaxTime, v \in 1..MaxRating, p \in PlayersChoices }
    \cup { [updated |-> u, rating |-> 1, players |-> WellFormedPlayers] :
             u \in {None, 0, -1} }
    \cup { [updated |-> 1, rating |-> None, players |-> WellFormedPlayers] }

GameResults == {"won", "lost"}

VARIABLES
    ratedGames,   \* remote: what get_ratings returns, in the remote's order
    allGames,     \* remote: what get_games returns (the 'result' of each game)
    series,       \* store: per metric, the datapoints appended so far
    runs,         \* per invocation of handle: its local state
    faults        \* number of raising calls / missing series so far

vars == <<ratedGames, allGames, series, runs, faults>>

\* --------------------------------------------------------- pure functions
Truthy(x) == x # None /\ x # 0

\* the rating test forgotten
UpdatedOnlyFilter(game) == Truthy(game.updated)

\* game.get('rating') is not None and game.get('updated')          (302)
CompletedFilter(game) == game.rating # None /\ Truthy(game.updated)

\* ... and int(game_updated) > 0 and game_finished_time > last_timestamp
NewGameFilter(game, last_timestamp) ==
    /\ game.rating # None
    /\ Truthy(game.updated)
    /\ game.updated > 0
    /\ game.updated * MsPerSecond > last_timestamp

\* completed_games: the records that pass the first-run filter, in order
RECURSIVE SelectCompleted(_)
SelectCompleted(games) ==
    IF games = <<>> THEN <<>>
    ELSE IF CompletedFilter(Head(games))
         THEN <<Head(games)>> \o SelectCompleted(Tail(games))
         ELSE SelectCompleted(Tail(games))

\* new_rating_games: the records finished after the last datapoint, in order
RECURSIVE SelectNew(_, _)
SelectNew(games, last_timestamp) ==
    IF games = <<>> THEN <<>>
    ELSE IF NewGameFilter(Head(games), last_timestamp)
         THEN <<Head(games)>> \o SelectNew(Tail(games), last_timestamp)
         ELSE SelectNew(Tail(games), last_timestamp)

\* the key ignored: every record goes to the end
AppendUnordered(sorted, game) == Append(sorted, game)

\* list.sort(key=lambda g: int(g['updated'])): stable, ascending
RECURSIVE InsertByUpdated(_, _)
InsertByUpdated(sorted, game) ==
    IF sorted = <<>> THEN <<game>>
    ELSE IF sorted[Len(sorted)].updated <= game.updated
         THEN Append(sorted, game)
         ELSE Append(InsertByUpdated(SubSeq(sorted, 1, Len(sorted) - 1), game),
                     sorted[Len(sorted)])

\* the sort left out
Unsorted(games) == games

RECURSIVE SortByUpdated(_)
SortByUpdated(games) ==
    IF games = <<>> THEN <<>>
    ELSE InsertByUpdated(SortByUpdated(SubSeq(games, 1, Len(games) - 1)),
                         games[Len(games)])

\* retrieve_latest: the stored point with the largest timestamp (the later
\* write wins on equal timestamps); absent on an empty series.
NoPoint == [present |-> FALSE, timestamp |-> 0, value |-> 0]

RECURSIVE LatestOf(_)
LatestOf(points) ==
    IF points = <<>> THEN NoPoint
    ELSE LET rest == LatestOf(SubSeq(points, 1, Len(points) - 1))
             last == points[Len(points)]
         IN IF rest.present /\ rest.timestamp > last.timestamp
            THEN rest
            ELSE [present |-> TRUE, timestamp |-> last.timestamp, value |-> last.value]

\* player.get(...) on an entry that is no dict raises
DeriveRaises(game) == \E i \in 1..Len(game.players) : ~game.players[i].dict

NonLocals(players) == {i \in 1..Len(players) : ~players[i].is_local}
Locals(players) == {i \in 1..Len(players) : players[i].is_local}
MinOf(S) == CHOOSE x \in S : \A y \in S : x <= y
MaxOf(S) == CHOOSE x \in S : \A y \in S : x >= y

\* game_metadata['opponent'], ['opponent_score']: the first non-local player
OpponentOf(game) ==
    IF NonLocals(game.players) = {} THEN "absent"
    ELSE game.players[MinOf(NonLocals(game.players))].username

OpponentScoreOf(game) ==
    IF NonLocals(game.players) = {} THEN None
    ELSE game.players[MinOf(NonLocals(game.players))].score

\* game_metadata['result']: last local player against last non-local player
ResultOf(game) ==
    IF Locals(game.players) = {} \/ NonLocals(game.players) = {} THEN "absent"
    ELSE LET local_score == game.players[MaxOf(Locals(game.players))].score
             opponent_score == game.players[MaxOf(NonLocals(game.players))].score
         IN IF local_score > opponent_score THEN "won"
            ELSE IF local_score < opponent_score THEN "lost"
            ELSE "tied"

\* game_metadata.get('result', 'unknown')
ResultOrUnknown(game) == IF ResultOf(game) = "absent" THEN "unknown" ELSE ResultOf(game)

RatingPoint(game) ==
    [timestamp |-> game.updated * MsPerSecond, value |-> game.rating,
     game_id |-> game.id, result |-> ResultOf(game),
     opponent |-> OpponentOf(game), opponent_score |-> OpponentScoreOf(game)]

\* the points of the other metrics carry game_id, result, rating_delta only
MetricPoint(game, value) ==
    [timestamp |-> game.updated * MsPerSecond, value |-> value,
     game_id |-> game.id, result |-> ResultOrUnknown(game),
     opponent |-> "absent", opponent_score |-> None]

\* sum(1 for g in all_games if g.get('result') == 'won')
WonGames(all_games) == Cardinality({i \in 1..Len(all_games) : all_games[i] = "won"})

\* (won_games / total_games * 100) if total_games > 0 else 0, as a quotient
WinRate(won_games, total_games) ==
    IF total_games > 0
    THEN [num |-> won_games * Percent, den |-> total_games]
    ELSE [num |-> 0, den |-> 1]

\* if all_games: append one point to games_played, games_won and win_rate
WithAggregates(data, game, all_games) ==
    IF all_games # <<>>
    THEN [data EXCEPT
            !["games_played"] = Append(@, MetricPoint(game, Len(all_games))),
            !["games_won"] = Append(@, MetricPoint(game, WonGames(all_games))),
            !["win_rate"] = Append(@, MetricPoint(game,
                               WinRate(WonGames(all_games), Len(all_games))))]
    ELSE data

\* >= in place of >
ImprovesOrEquals(game_rating, current_best_rating) == game_rating >= current_best_rating

\* if game_rating > current_best_rating
ImprovesBest(game_rating, current_best_rating) == game_rating > current_best_rating

\* rating point, then the best_rating point when the rating improved
WithRating(data, game, current_best_rating) ==
    LET d1 == [data EXCEPT !["rating"] = Append(@, RatingPoint(game))]
    IN IF ImprovesBest(game.rating, current_best_rating)
       THEN [d1 EXCEPT !["best_rating"] = Append(@, MetricPoint(game, game.rating))]
       ELSE d1

\* any(wordfeud_data.values())
AnyData(data) == \E m \in Metrics : data[m] # <<>>

\* 'break' in place of 'continue': the first missing series ends the list
RECURSIVE PointListBreak(_, _, _)
PointListBreak(order, data, missing) ==
    IF order = <<>> THEN <<>>
    ELSE IF data[Head(order)] = <<>> THEN PointListBreak(Tail(order), data, missing)
    ELSE IF Head(order) \in missing THEN <<>>
    ELSE <<[metric |-> Head(order), datapoints |-> data[Head(order)]]>>
         \o PointListBreak(Tail(order), data, missing)

\* ts_point_list: the metrics with points whose series exists, in dict order
RECURSIVE PointList(_, _, _)
PointList(order, data, missing) ==
    IF order = <<>> THEN <<>>
    ELSE IF data[Head(order)] # <<>> /\ Head(order) \notin missing
         THEN <<[metric |-> Head(order), datapoints |-> data[Head(order)]]>>
              \o PointList(Tail(order), data, missing)
         ELSE PointList(Tail(order), data, missing)

\* insert_multiple: every listed batch is appended to its series
RECURSIVE Inserted(_, _)
Inserted(store, ts_point_list) ==
    IF ts_point_list = <<>> THEN store
    ELSE Inserted([store EXCEPT ![Head(ts_point_list).metric] =
                        @ \o Head(ts_point_list).datapoints],
                  Tail(ts_point_list))

\* ---------------------------------------------------------------- state
\* A rating point an earlier deployment stored, for a game finished at second 1
\* that the remote source may or may not list any more.
EarlierPoint(v) ==
    [timestamp |-> MsPerSecond, value |-> v, game_id |-> 0, result |-> "absent",
     opponent |-> "absent", opponent_score |-> None]

IdleRun ==
    [pc |-> "idle",
     pipeline |-> FALSE,          \* data['extraction-pipeline'] or username
     calls |-> {},                \* remote operations invoked
     games |-> <<>>,              \* games_with_ratings
     wm |-> NoPoint,              \* latest_rating_datapoint
     stored |-> NoPoint,          \* the store's latest rating point at the read
     work |-> <<>>,               \* sorted records still to process
     best |-> 0,                  \* current_best_rating
     data |-> EmptyData,          \* datapoints
     caught |-> "none",           \* exception caught in get_wordfeud_data
     missing |-> {},              \* series whose retrieve raised
     sent |-> <<>>,               \* ts_point_list
     inserted |-> FALSE,          \* insert_multiple returned
     failure |-> "none",          \* the call whose exception reached handle's except
     reports |-> <<>>,            \* statuses the run reporter recorded
     reportRaised |-> FALSE,      \* the failure report itself raised
     raised |-> FALSE,            \* handle re-raised
     verStart |-> 0,              \* size of the remote game list at get_ratings
     overlapped |-> FALSE]        \* began while another invocation was under way

Init ==
    /\ \E n \in 0..MaxRated : \E f \in [1..n -> GameBodies] :
         ratedGames = [i \in 1..n |->
                         [id |-> i, updated |-> f[i].updated,
                          rating |-> f[i].rating, players |-> f[i].players]]
    /\ allGames = <<>>
    /\ series \in {EmptyData} \cup
         {[EmptyData EXCEPT !["rating"] = <<EarlierPoint(v)>>] : v \in 1..MaxRating}
    /\ runs = [r \in Runs |-> IdleRun]
    /\ faults = 0


MayFault == faults < MaxFaults

\* extraction_pipeline = data.get('extraction-pipeline'), else derived from
\* username: is there a pipeline to report to
PipelineKnown(hasPipeline, hasUser) == hasPipeline \/ hasUser

\* the failure is never reported
NoFailureReports(pipeline, ok) == <<>>

\* if extraction_pipeline: try: report(status='failure', message=error_msg)
FailureReports(pipeline, ok) == IF pipeline /\ ok THEN <<"failure">> ELSE <<>>

Finished(r) == runs[r].pc \in {"done", "raised"}

\* the invocation has entered handle and has not left it
UnderWay(r) == runs[r].pc \notin {"idle", "done", "raised"}

\* ---------------------------------------------------------------- actions
\* A game is added to the account's game list while the extractor is deployed.
RemoteGamePlayed ==
    /\ Len(allGames) < MaxGames
    /\ \E res \in GameResults : allGames' = Append(allGames, res)
    /\ UNCHANGED <<ratedGames, series, runs, faults>>

\* login_email attempted although a credential is missing
LoginRegardless(configOk) == {"login_email"}

\* if not email or not password or not username: raise ... (551-552), and
\* only then Wordfeud().login_email (555-556): the remote calls made so far
CallsAfterCredentials(configOk) == IF configOk THEN {"login_email"} ELSE {}

\* handle, lines 537-556: credentials, then login_email.  On a missing
\* credential no remote call is made and control passes to the except block.
Begin(r) ==
    /\ runs[r].pc = "idle"
    /\ \E hasCreds \in BOOLEAN, hasUser \in BOOLEAN, hasPipeline \in BOOLEAN,
          loginOk \in BOOLEAN :
         LET configOk == hasCreds /\ hasUser
             fault == ~configOk \/ ~loginOk
         IN /\ fault => MayFault
            /\ faults' = IF fault THEN faults + 1 ELSE faults
            /\ runs' = [runs EXCEPT ![r] =
                 [@ EXCEPT !.pc = IF fault THEN "except" ELSE "fetch",
                           !.failure = IF ~configOk THEN "credentials"
                                       ELSE IF ~loginOk THEN "login_email" ELSE "none",
                           !.pipeline = PipelineKnown(hasPipeline, hasUser),
                           !.calls = CallsAfterCredentials(configOk),
                           !.overlapped = \E q \in Runs \ {r} : UnderWay(q)]]
    /\ UNCHANGED <<ratedGames, allGames, series>>

\* handle is invoked again only after the previous invocation returned
BeginNext(r) ==
    /\ IF r = 1 THEN TRUE ELSE Finished(r - 1)
    /\ Begin(r)

\* get_wordfeud_data, lines 144-149: get_ratings.  An exception is caught by
\* the function's own except clause (438-443), which returns the datapoints.
GetRatings(r) ==
    /\ runs[r].pc = "fetch"
    /\ \E ok \in BOOLEAN :
         /\ ~ok => MayFault
         /\ faults' = IF ok THEN faults ELSE faults + 1
         /\ runs' = [runs EXCEPT ![r] =
              [@ EXCEPT !.calls = @ \cup {"get_ratings"},
                        !.verStart = Len(allGames),
                        !.games = IF ok THEN ratedGames ELSE <<>>,
                        !.caught = IF ok THEN "none" ELSE "get_ratings",
                        !.pc = IF ok /\ ratedGames # <<>> THEN "watermark"
                               ELSE "collected"]]
    /\ UNCHANGED <<ratedGames, allGames, series>>

\* lines 151-179 and 296-312: get_latest_datapoint (None when the retrieval
\* raises), selection of the records, sort, seed of current_best_rating.
ReadWatermark(r) ==
    /\ runs[r].pc = "watermark"
    /\ \E ok \in BOOLEAN :
         LET stored == LatestOf(series["rating"])
             latest == IF ok THEN stored ELSE NoPoint
             kept == IF latest.present
                     THEN SelectNew(runs[r].games, latest.timestamp)
                     ELSE SelectCompleted(runs[r].games)
             sorted == SortByUpdated(kept)
         IN /\ ~ok => MayFault
            /\ faults' = IF ok THEN faults ELSE faults + 1
            /\ runs' = [runs EXCEPT ![r] =
                 [@ EXCEPT !.calls = @ \cup {"retrieve_latest"},
                           !.stored = stored,
                           !.wm = latest,
                           !.work = sorted,
                           !.best = IF latest.present THEN latest.value ELSE 0,
                           !.pc = IF sorted = <<>> THEN "collected" ELSE "loop"]]
    /\ UNCHANGED <<ratedGames, allGames, series>>

\* One iteration of the for loop, lines 182-293 and 315-426.
ProcessGame(r) ==
    /\ runs[r].pc = "loop"
    /\ LET game == Head(runs[r].work)
           rest == Tail(runs[r].work)
           next == IF rest = <<>> THEN "collected" ELSE "loop"
       IN IF ~Truthy(game.updated) \/ game.updated <= 0
          THEN \* invalid updated timestamp: continue
               /\ runs' = [runs EXCEPT ![r] =
                    [@ EXCEPT !.work = rest, !.pc = next]]
               /\ UNCHANGED faults
          ELSE IF DeriveRaises(game)
          THEN \* the exception leaves the loop: except clause, return datapoints
               /\ runs' = [runs EXCEPT ![r] =
                    [@ EXCEPT !.caught = "derive", !.pc = "collected"]]
               /\ UNCHANGED faults
          ELSE \E ok \in BOOLEAN :
               LET rated == WithRating(runs[r].data, game, runs[r].best)
                   best == IF ImprovesBest(game.rating, runs[r].best)
                           THEN game.rating ELSE runs[r].best
               IN /\ ~ok => MayFault
                  /\ faults' = IF ok THEN faults ELSE faults + 1
                  /\ runs' = [runs EXCEPT ![r] =
                       [@ EXCEPT !.calls = @ \cup {"get_games"},
                                 !.best = best,
                                       !.data = IF ok
                                          THEN WithAggregates(rated, game, allGames)
                                          ELSE rated,
                                 !.work = IF ok THEN rest ELSE @,
                                 !.caught = IF ok THEN @ ELSE "get_games",
                                 !.pc = IF ok THEN next ELSE "collected"]]
    /\ UNCHANGED <<ratedGames, allGames, series>>

\* handle 585-589 with store_wordfeud_data 447-530: the series check of every
\* metric that has points, then the single insert_multiple call.
StoreData(r) ==
    /\ runs[r].pc = "collected"
    /\ IF ~AnyData(runs[r].data)
       THEN /\ runs' = [runs EXCEPT ![r] = [@ EXCEPT !.pc = "report"]]
            /\ UNCHANGED <<series, faults>>
       ELSE \E missing \in SUBSET {m \in Metrics : runs[r].data[m] # <<>>},
               ok \in BOOLEAN :
            LET ts_point_list == PointList(MetricOrder, runs[r].data, missing)
                nfaults == Cardinality(missing) + (IF ok THEN 0 ELSE 1)
            IN /\ faults + nfaults <= MaxFaults
               /\ ~ok => ts_point_list # <<>>
               /\ faults' = faults + nfaults
               /\ series' = IF ok THEN Inserted(series, ts_point_list) ELSE series
               /\ runs' = [runs EXCEPT ![r] =
                    [@ EXCEPT !.calls = @ \cup {"retrieve"} \cup
                                (IF ts_point_list # <<>> THEN {"insert_multiple"} ELSE {}),
                              !.missing = missing,
                              !.sent = ts_point_list,
                              !.inserted = ok /\ ts_point_list # <<>>,
                              !.failure = IF ok THEN "none" ELSE "insert_multiple",
                              !.pc = IF ok THEN "report" ELSE "except"]]
    /\ UNCHANGED <<ratedGames, allGames>>

\* handle 591-598: report_extraction_pipeline_run(client, extraction_pipeline)
ReportSuccess(r) ==
    /\ runs[r].pc = "report"
    /\ \E ok \in BOOLEAN :
         /\ ~ok => MayFault
         /\ faults' = IF ok THEN faults ELSE faults + 1
         /\ runs' = [runs EXCEPT ![r] =
              [@ EXCEPT !.calls = @ \cup {"report"},
                        !.reports = IF ok THEN Append(@, "success") ELSE @,
                        !.failure = IF ok THEN "none" ELSE "report",
                        !.pc = IF ok THEN "done" ELSE "except"]]
    /\ UNCHANGED <<ratedGames, allGames, series>>

\* handle 600-616: report the failure if a pipeline is configured (a failing
\* report is swallowed), then re-raise.  The report made here may fail
\* whatever went wrong before.
HandleException(r) ==
    /\ runs[r].pc = "except"
    /\ \E ok \in BOOLEAN :
         /\ ~ok => runs[r].pipeline
         /\ runs' = [runs EXCEPT ![r] =
              [@ EXCEPT !.calls = IF runs[r].pipeline THEN @ \cup {"report"} ELSE @,
                        !.reports = @ \o FailureReports(runs[r].pipeline, ok),
                        !.reportRaised = ~ok,
                        !.raised = TRUE,
                        !.pc = "raised"]]
    /\ UNCHANGED <<ratedGames, allGames, series, faults>>

Next ==
    \/ RemoteGamePlayed
    \/ \E r \in Runs : BeginNext(r)
    \/ \E r \in Runs : GetRatings(r)
    \/ \E r \in Runs : ReadWatermark(r)
    \/ \E r \in Runs : ProcessGame(r)
    \/ \E r \in Runs : StoreData(r)
    \/ \E r \in Runs : ReportSuccess(r)
    \/ \E r \in Runs : HandleException(r)

Spec == Init /\ [][Next]_vars

\* ------------------------------------------------------------ properties
\* A record the claims call valid: non-null rating and updated > 0.
ValidRecord(game) == game.rating # None /\ game.updated # None /\ game.updated > 0

\* get_wordfeud_data has returned and handle has not yet stored anything.
Built(r) == runs[r].pc = "collected"

AfterStore(r) == runs[r].pc \in {"report", "except", "done", "raised"}

HasPointFor(points, id) == \E k \in 1..Len(points) : points[k].game_id = id

Ascending(points) ==
    \A k, l \in 1..Len(points) : k < l => points[k].timestamp <= points[l].timestamp

\* The records a run has to emit: everything valid when it retrieved no
\* latest point, else the valid records finished after that point.
Selected(r, game) ==
    /\ ValidRecord(game)
    /\ runs[r].wm.present => game.updated * MsPerSecond > runs[r].wm.timestamp

\* C1: if a run emitted rating points, they were appended to the rating
\* series and the remote collections did not change, then the next run emits
\* no point for any metric.
C1_Idempotence ==
    \A r \in 1..(MaxRuns - 1) :
        ( /\ Finished(r)
          /\ runs[r].data["rating"] # <<>>
          /\ runs[r].inserted
          /\ "rating" \notin runs[r].missing
          /\ Built(r + 1)
          /\ runs[r].verStart = Len(allGames) )
        => ~AnyData(runs[r + 1].data)

\* C2: when the store holds a latest rating point, every point a run emits,
\* for any metric, has a timestamp strictly greater than that point's.
C2_StrictWatermark ==
    \A r \in Runs :
        (Built(r) /\ LatestOf(series["rating"]).present)
        => \A m \in Metrics : \A k \in 1..Len(runs[r].data[m]) :
               runs[r].data[m][k].timestamp > LatestOf(series["rating"]).timestamp

\* C3: with no rating point stored and N valid records in ratedGames, a run
\* in which no call raised and no record is malformed emits exactly N rating
\* points, one per valid record with its rating as value, in ascending
\* timestamp order.
C3_BootstrapComplete ==
    \A r \in Runs :
        (Built(r) /\ series["rating"] = <<>> /\ runs[r].caught = "none")
        => LET valid == {i \in 1..Len(ratedGames) : ValidRecord(ratedGames[i])}
               points == runs[r].data["rating"]
           IN /\ Len(points) = Cardinality(valid)
              /\ \A i \in valid : \E k \in 1..Len(points) :
                     /\ points[k].game_id = i
                     /\ points[k].value = ratedGames[i].rating
                     /\ points[k].timestamp = ratedGames[i].updated * MsPerSecond
              /\ Ascending(points)

\* two valid records, returned newest first, were backfilled
C3_Witness ==
    \E r \in Runs :
        /\ Built(r) /\ series["rating"] = <<>> /\ runs[r].caught = "none"
        /\ Len(runs[r].data["rating"]) = 2
        /\ Len(ratedGames) = 2
        /\ ratedGames[1].updated > ratedGames[2].updated

\* The largest of the seed and the ratings emitted before position k.
RECURSIVE BestBefore(_, _, _)
BestBefore(seed, points, k) ==
    IF k <= 1 THEN seed
    ELSE LET b == BestBefore(seed, points, k - 1)
         IN IF points[k - 1].value > b THEN points[k - 1].value ELSE b

\* C4: within one run the best_rating values never decrease, and a processed
\* record gets a best_rating point exactly when its rating exceeds the seed
\* (the value of the latest rating point the run retrieved, 0 when it
\* retrieved none) and the ratings of all records processed before it; the
\* point carries that record's rating.
C4_BestRating ==
    \A r \in Runs :
        LET seed == IF runs[r].wm.present THEN runs[r].wm.value ELSE 0
            rated == runs[r].data["rating"]
            best == runs[r].data["best_rating"]
        IN /\ \A k, l \in 1..Len(best) : k < l => best[k].value <= best[l].value
           /\ \A k \in 1..Len(rated) :
                  HasPointFor(best, rated[k].game_id)
                  <=> rated[k].value > BestBefore(seed, rated, k)
           /\ \A k \in 1..Len(best) :
                  /\ HasPointFor(rated, best[k].game_id)
                  /\ best[k].value = ratedGames[best[k].game_id].rating
                  /\ best[k].timestamp = ratedGames[best[k].game_id].updated * MsPerSecond
           /\ Len(best) <= Len(rated)

\* seeded from a retrieved point: of two processed records, the first
\* improved the best rating and the second did not
C4_Witness ==
    \E r \in Runs :
        /\ Built(r) /\ runs[r].wm.present
        /\ Len(runs[r].data["rating"]) = 2
        /\ Len(runs[r].data["best_rating"]) = 1
        /\ runs[r].data["best_rating"][1].game_id = runs[r].data["rating"][1].game_id

\* C5: a record whose rating is null or whose updated is absent, zero or
\* negative yields no point for any metric, on the first-run path and on the
\* incremental path, and it does not abort the batch: in a run in which
\* nothing raised, every valid selected record still has its rating point.
C5_InvalidSkipped ==
    \A r \in Runs :
        /\ \A m \in Metrics : \A k \in 1..Len(runs[r].data[m]) :
               ValidRecord(ratedGames[runs[r].data[m][k].game_id])
        /\ (Built(r) /\ runs[r].caught = "none")
           => \A i \in 1..Len(runs[r].games) :
                  Selected(r, ratedGames[i])
                  => HasPointFor(runs[r].data["rating"], i)

\* an invalid record sat next to an emitted one on the incremental path and,
\* in another run, on the first-run path
C5_Witness ==
    /\ \E i \in 1..Len(ratedGames) : ~ValidRecord(ratedGames[i])
    /\ \E r \in Runs :
          /\ AfterStore(r) /\ runs[r].wm.present /\ runs[r].caught = "none"
          /\ runs[r].data["rating"] # <<>>
    /\ \E r \in Runs :
          /\ Built(r) /\ ~runs[r].wm.present /\ runs[r].caught = "none"
          /\ runs[r].data["rating"] # <<>>

\* C6: if deriving the points of one selected record raises, processing
\* continues with the next record, so every other valid selected record of
\* the run that can be derived is still emitted.
C6_PerRecordRecovery ==
    \A r \in Runs :
        (Built(r) /\ runs[r].caught = "derive")
        => \A i \in 1..Len(runs[r].games) :
               (Selected(r, ratedGames[i]) /\ ~DeriveRaises(ratedGames[i]))
               => HasPointFor(runs[r].data["rating"], i)

\* C7: if get_ratings or get_games raises, nothing of that run is appended
\* to the store, handle raises, and the run is reported as a failure.
C7_FetchErrorAborts ==
    \A r \in Runs :
        (Finished(r) /\ runs[r].caught \in {"get_ratings", "get_games"})
        => /\ ~runs[r].inserted
           /\ runs[r].raised
           /\ runs[r].reports = <<"failure">>

\* C8 as claimed: whenever a step of handle raises, exactly one failure is
\* reported, no success is reported, and handle re-raises.
C8_AlwaysOneFailureReport ==
    \A r \in Runs :
        (runs[r].failure # "none" /\ Finished(r))
        => /\ runs[r].reports = <<"failure">>
           /\ runs[r].raised

\* C8, amended: whenever a step of handle raises (a missing credential, the
\* login, insert_multiple, the success report), handle re-raises and reports
\* no success; it reports exactly one failure when a pipeline is known (given
\* in data or derived from the username) and the reporter accepts the
\* report, and nothing otherwise.  A run that ends without raising had no
\* failing step.
C8_FailurePropagation ==
    \A r \in Runs :
        /\ runs[r].failure # "none" => runs[r].pc \in {"except", "raised"}
        /\ runs[r].pc = "raised"
           => /\ runs[r].raised
              /\ runs[r].failure # "none"
              /\ runs[r].reports =
                   (IF runs[r].pipeline /\ ~runs[r].reportRaised
                    THEN <<"failure">> ELSE <<>>)
        /\ runs[r].pc = "done" => ~runs[r].raised /\ runs[r].reports = <<"success">>

\* the bulk insert failed: one failure reported, handle re-raised
C8_Witness ==
    \E r \in Runs :
        /\ runs[r].pc = "raised"
        /\ runs[r].failure = "insert_multiple"
        /\ runs[r].reports = <<"failure">>
        /\ runs[r].raised

\* C9: a metric whose series does not exist is left out of the bulk append;
\* every other metric with points is in it exactly once, with all its points
\* in the emitted order, and the run does not fail because of the missing
\* series: if the insert and the report succeed it ends with a success.
C9_MissingSeriesSkipped ==
    \A r \in Runs :
        AfterStore(r)
        => LET sent == runs[r].sent
               data == runs[r].data
           IN /\ \A k \in 1..Len(sent) : sent[k].metric \notin runs[r].missing
              /\ \A m \in Metrics \ runs[r].missing :
                     data[m] # <<>>
                     => \E k \in 1..Len(sent) :
                            sent[k].metric = m /\ sent[k].datapoints = data[m]
              /\ \A k, l \in 1..Len(sent) : k # l => sent[k].metric # sent[l].metric
              /\ (runs[r].inserted /\ (r = MaxRuns \/ ~AfterStore(IF r = MaxRuns THEN r ELSE r + 1)))
                 => \A k \in 1..Len(sent) :
                        LET stored == series[sent[k].metric]
                            n == Len(sent[k].datapoints)
                        IN /\ Len(stored) >= n
                           /\ SubSeq(stored, Len(stored) - n + 1, Len(stored))
                                = sent[k].datapoints
              /\ (runs[r].missing # {} /\ runs[r].failure = "none" /\ Finished(r))
                 => runs[r].reports = <<"success">>

\* the rating series is missing, the best_rating points behind it in the
\* dict order were appended, and the run ended with a success
C9_Witness ==
    \E r \in Runs :
        /\ runs[r].pc = "done"
        /\ runs[r].missing = {"rating"}
        /\ runs[r].data["rating"] # <<>>
        /\ runs[r].inserted
        /\ \E k \in 1..Len(runs[r].sent) : runs[r].sent[k].metric = "best_rating"
        /\ runs[r].reports = <<"success">>

\* C10: every record with a rating point has, in the same run, exactly one
\* games_played, one games_won and one win_rate point at its timestamp, with
\* the number of all games, the number of won games and won * 100 / played
\* (0 when no game was played) as values.  Stated for the runs in which
\* nothing raised and the game list did not change.
C10_AggregatesPerRecord ==
    \A r \in Runs :
        (Built(r) /\ runs[r].caught = "none" /\ runs[r].verStart = Len(allGames))
        => \A k \in 1..Len(runs[r].data["rating"]) :
               LET p == runs[r].data["rating"][k]
                   played == Len(allGames)
                   won == WonGames(allGames)
                   Only(m) == {j \in 1..Len(runs[r].data[m]) :
                                 runs[r].data[m][j].game_id = p.game_id}
                   The(m) == runs[r].data[m][CHOOSE j \in Only(m) : TRUE]
               IN /\ \A m \in {"games_played", "games_won", "win_rate"} :
                        /\ Cardinality(Only(m)) = 1
                        /\ The(m).timestamp = p.timestamp
                  /\ The("games_played").value = played
                  /\ The("games_won").value = won
                  /\ The("win_rate").value.num * (IF played = 0 THEN 1 ELSE played)
                       = (IF played = 0 THEN 0 ELSE won * Percent)
                           * The("win_rate").value.den

\* C11: for every metric the points one run produces have non-decreasing
\* timestamps, each equal to updated * 1000 of the record it stems from,
\* whatever the order in which the remote source lists the records; records
\* with equal updated keep the remote's order; and the batch of a metric is
\* handed to the bulk append unchanged.
C11_OrderedWithinRun ==
    \A r \in Runs : \A m \in Metrics :
        LET points == runs[r].data[m]
        IN /\ Ascending(points)
           /\ \A k \in 1..Len(points) :
                  points[k].timestamp
                    = ratedGames[points[k].game_id].updated * MsPerSecond
           /\ \A k, l \in 1..Len(points) :
                  (k < l /\ points[k].timestamp = points[l].timestamp)
                  => points[k].game_id < points[l].game_id
           /\ AfterStore(r)
              => \A k \in 1..Len(runs[r].sent) :
                     runs[r].sent[k].metric = m
                     => runs[r].sent[k].datapoints = points

\* the remote listed the newer record first; both were emitted for the
\* rating and the games_played series and appended
C11_Witness ==
    \E r \in Runs :
        /\ AfterStore(r) /\ runs[r].inserted
        /\ Len(ratedGames) = 2
        /\ ratedGames[1].updated > ratedGames[2].updated
        /\ Len(runs[r].data["rating"]) = 2
        /\ Len(runs[r].data["games_played"]) = 2
        /\ runs[r].data["rating"][1].game_id = 2

\* C12 as claimed: when a credential is missing, handle raises and the run
\* makes no remote call at all.
C12_NoRemoteCallAtAll ==
    \A r \in Runs :
        (runs[r].failure = "credentials" /\ Finished(r))
        => runs[r].raised /\ runs[r].calls = {}

\* C12, amended: when the email, the password or the username is missing,
\* handle raises to its caller and the run calls neither the game source
\* (login_email, get_ratings, get_games) nor the metric store
\* (retrieve_latest, retrieve, insert_multiple) and appends nothing; the one
\* remote call it makes is the failure report to the run reporter, made
\* exactly when a pipeline is known.
C12_ConfigErrorIsFatal ==
    \A r \in Runs :
        runs[r].failure = "credentials"
        => /\ runs[r].pc \in {"except", "raised"}
           /\ runs[r].pc = "raised" => runs[r].raised
           /\ runs[r].calls = (IF runs[r].pc = "raised" /\ runs[r].pipeline
                               THEN {"report"} ELSE {})
           /\ ~runs[r].inserted /\ runs[r].sent = <<>>
           /\ ~AnyData(runs[r].data)
           /\ runs[r].reports \in {<<>>, <<"failure">>}

\* a credential was missing while a pipeline was known: handle raised after
\* the failure report, its only remote call
C12_Witness ==
    \E r \in Runs :
        /\ runs[r].failure = "credentials"
        /\ runs[r].pc = "raised" /\ runs[r].raised
        /\ runs[r].calls = {"report"}
        /\ runs[r].reports = <<"failure">>

\* C13: all games_played points one run emits carry the same value, and so
\* do all its games_won points and all its win_rate points, even when the
\* remote game list changes while the run is in progress.
C13_AggregatesIdentical ==
    \A r \in Runs : \A m \in {"games_played", "games_won", "win_rate"} :
        \A k, l \in 1..Len(runs[r].data[m]) :
            runs[r].data[m][k].value = runs[r].data[m][l].value

\* ------------------------------------------------- records with any players
\* The players array of a record is whatever the remote source sends: any
\* number of entries, local or not, in any order.
PlayerPool ==
    { Player(TRUE, 2, "me"), Player(TRUE, 1, "me2"),
      Player(FALSE, 1, "a"), Player(FALSE, 2, "b"), Player(FALSE, 3, "c") }

PlayerLists == UNION {[1..n -> PlayerPool] : n \in 0..MaxPlayers}

\* One rated record with an arbitrary players array, nothing stored yet.
InitPlayers ==
    /\ \E p \in PlayerLists :
         ratedGames = <<[id |-> 1, updated |-> 1, rating |-> 1, players |-> p]>>
    /\ allGames = <<>>
    /\ series = EmptyData
    /\ runs = [r \in Runs |-> IdleRun]
    /\ faults = 0

SpecPlayers == InitPlayers /\ [][Next]_vars

ScoreResult(local_score, opponent_score) ==
    IF local_score > opponent_score THEN "won"
    ELSE IF local_score < opponent_score THEN "lost"
    ELSE "tied"

\* The players of a record are resolved: exactly one local player and at
\* least one opponent.
Resolved(game) ==
    Cardinality(Locals(game.players)) = 1 /\ NonLocals(game.players) # {}

\* C14: for a record with two or more players (one of them the local
\* player), the result in the rating point's metadata is won, lost or tied
\* as the local player's score is greater than, less than or equal to the
\* opponent_score recorded in the same metadata.
C14_ResultMatchesOpponent ==
    \A r \in Runs : \A k \in 1..Len(runs[r].data["rating"]) :
        LET p == runs[r].data["rating"][k]
            game == ratedGames[p.game_id]
        IN (Len(game.players) >= 2 /\ Resolved(game))
           => p.result = ScoreResult(
                  game.players[CHOOSE i \in Locals(game.players) : TRUE].score,
                  p.opponent_score)

\* C15: when a record has not exactly one local player or has no opponent,
\* no point emitted for it, on any metric, carries a result or an opponent,
\* and in a run in which nothing raised its rating point is emitted.
C15_UnresolvedOmitted ==
    \A r \in Runs :
        /\ \A m \in Metrics : \A k \in 1..Len(runs[r].data[m]) :
               LET p == runs[r].data[m][k]
               IN ~Resolved(ratedGames[p.game_id])
                  => /\ p.result = "absent"
                     /\ p.opponent = "absent"
                     /\ p.opponent_score = None
        /\ (Built(r) /\ runs[r].caught = "none")
           => \A i \in 1..Len(runs[r].games) :
                  (Selected(r, ratedGames[i]) /\ ~Resolved(ratedGames[i]))
                  => HasPointFor(runs[r].data["rating"], i)

\* ------------------------------------------------------ concurrent runs
\* Nothing in handle keeps a second invocation for the same user from
\* starting while the first is under way: no lock, no re-read of the
\* watermark before the append.  One valid record is waiting at the remote.
InitConcurrent ==
    /\ \E b \in {g \in GameBodies : ValidRecord(g) /\ ~DeriveRaises(g)} :
         ratedGames = <<[id |-> 1, updated |-> b.updated,
                         rating |-> b.rating, players |-> b.players]>>
    /\ allGames = <<>>
    /\ series = EmptyData
    /\ runs = [r \in Runs |-> IdleRun]
    /\ faults = 0

NextConcurrent ==
    \/ RemoteGamePlayed
    \/ \E r \in Runs : Begin(r)
    \/ \E r \in Runs : GetRatings(r)
    \/ \E r \in Runs : ReadWatermark(r)
    \/ \E r \in Runs : ProcessGame(r)
    \/ \E r \in Runs : StoreData(r)
    \/ \E r \in Runs : ReportSuccess(r)
    \/ \E r \in Runs : HandleException(r)

SpecConcurrent == InitConcurrent /\ [][NextConcurrent]_vars

\* Some series holds two points of the same record.
DoubleAppended ==
    \E m \in Metrics : \E k, l \in 1..Len(series[m]) :
        k < l /\ series[m][k].game_id = series[m][l].game_id

\* C16: a record is appended twice only when two runs interleaved; with the
\* runs executed strictly one after another no record is appended twice.
\* Stated for the behaviours in which every series exists.
C16_DoubleAppendOnlyInterleaved ==
    (DoubleAppended /\ \A q \in Runs : runs[q].missing = {})
    => \E r \in Runs : runs[r].overlapped

\* two interleaved runs in which no call failed both read the watermark
\* before either appended, and both appended the same record
C16_InterleavedDoubleAppend ==
    /\ DoubleAppended
    /\ faults = 0
    /\ \E r \in Runs : runs[r].overlapped
    /\ \A r \in Runs : runs[r].inserted /\ ~runs[r].wm.present

\* ------------------------------------------------- the rated list grows
\* Between and during runs the account finishes further rated games: each
\* is listed by get_ratings from then on, with a later completion time than
\* the ones before it and any rating.
RemoteRatingFinished ==
    /\ Len(ratedGames) < MaxRated + 1
    /\ \E v \in 1..(MaxRating + 1) :
         ratedGames' = Append(ratedGames,
                          [id |-> Len(ratedGames) + 1,
                           updated |-> Len(ratedGames) + 1,
                           rating |-> v,
                           players |-> WellFormedPlayers])
    /\ UNCHANGED <<allGames, series, runs, faults>>

InitHistory ==
    /\ ratedGames = <<>>
    /\ allGames = <<>>
    /\ series = EmptyData
    /\ runs = [r \in Runs |-> IdleRun]
    /\ faults = 0

NextHistory ==
    \/ RemoteRatingFinished
    \/ RemoteGamePlayed
    \/ \E r \in Runs : BeginNext(r)
    \/ \E r \in Runs : GetRatings(r)
    \/ \E r \in Runs : ReadWatermark(r)
    \/ \E r \in Runs : ProcessGame(r)
    \/ \E r \in Runs : StoreData(r)
    \/ \E r \in Runs : ReportSuccess(r)
    \/ \E r \in Runs : HandleException(r)

SpecHistory == InitHistory /\ [][NextHistory]_vars

\* C17: over sequential runs in which no call failed, the values of the
\* best_rating series, taken in timestamp order, never decrease.
C17_BestRatingMonotone ==
    faults = 0
    => \A k, l \in 1..Len(series["best_rating"]) :
           series["best_rating"][k].timestamp < series["best_rating"][l].timestamp
           => series["best_rating"][k].value <= series["best_rating"][l].value

\* ------------------------------------------------------- repeated runs
\* The scheduler keeps invoking handle against an unchanged remote set in
\* which exactly one rated record is malformed (its players array makes the
\* derivation raise) and the others are valid.
MalformedBodies == {b \in GameBodies : b.rating # None /\ DeriveRaises(b)}

ValidBodies == {b \in GameBodies : ValidRecord(b) /\ ~DeriveRaises(b)}

InitRepeat ==
    /\ \E pos \in 1..MaxRated : \E f \in [1..MaxRated -> GameBodies] :
         /\ \A i \in 1..MaxRated :
                f[i] \in (IF i = pos THEN MalformedBodies ELSE ValidBodies)
         /\ ratedGames = [i \in 1..MaxRated |->
                            [id |-> i, updated |-> f[i].updated,
                             rating |-> f[i].rating, players |-> f[i].players]]
    /\ allGames \in {<<>>, <<"won">>}
    /\ series = EmptyData
    /\ runs = [r \in Runs |-> IdleRun]
    /\ faults = 0

\* the invocations so far have returned: the scheduler starts over
Reschedule ==
    /\ \A r \in Runs : Finished(r)
    /\ runs' = [r \in Runs |-> IdleRun]
    /\ UNCHANGED <<ratedGames, allGames, series, faults>>

NextRepeat ==
    \/ Reschedule
    \/ \E r \in Runs : BeginNext(r)
    \/ \E r \in Runs : GetRatings(r)
    \/ \E r \in Runs : ReadWatermark(r)
    \/ \E r \in Runs : ProcessGame(r)
    \/ \E r \in Runs : StoreData(r)
    \/ \E r \in Runs : ReportSuccess(r)
    \/ \E r \in Runs : HandleException(r)

\* Every call returns or raises and the scheduler never stops invoking
\* handle: some step is always taken.
SpecRepeat == InitRepeat /\ [][NextRepeat]_vars /\ WF_vars(NextRepeat)

\* C18: under repeated sequential runs against an unchanged remote set with
\* one malformed record, every valid rated record newer than the stored
\* watermark is eventually in the rating series.
C18_MalformedDoesNotBlock ==
    \A i \in 1..MaxRated :
        ( /\ i \in DOMAIN ratedGames
          /\ ValidRecord(ratedGames[i])
          /\ ~DeriveRaises(ratedGames[i])
          /\ LatestOf(series["rating"]).present
             => ratedGames[i].updated * MsPerSecond
                  > LatestOf(series["rating"]).timestamp )
        ~> HasPointFor(series["rating"], i)

\* C19: when the retrieval of the latest rating point fails while the rating
\* series holds points, the run emits no point, for any metric, for a record
\* whose rating point is already stored.
C19_ReadFailureNoReemission ==
    \A r \in Runs :
        ( /\ runs[r].pc \in {"loop", "collected"}
          /\ runs[r].stored.present
          /\ ~runs[r].wm.present )
        => \A m \in Metrics : \A k \in 1..Len(runs[r].data[m]) :
               ~HasPointFor(series["rating"], runs[r].data[m][k].game_id)

====
